---- MODULE Spec2Model ----
(***************************************************************************)
(* Hadoop-streaming WordCount: mapper.py (tokenizer), the external sort    *)
(* barrier, and reducer.py (sorted-group aggregator).                      *)
(*                                                                         *)
(* A line of text is a sequence of characters; a character is a one-       *)
(* character string.  Four non-ASCII code points are written by name:      *)
(* "U+212A" (KELVIN SIGN), "U+0130" (LATIN CAPITAL LETTER I WITH DOT       *)
(* ABOVE), "U+0307" (COMBINING DOT ABOVE) and "U+0663" (ARABIC-INDIC DIGIT *)
(* THREE).  A stream is a sequence of lines, each as `for line in          *)
(* sys.stdin` yields it, that is with its line break when it has one.      *)
(***************************************************************************)
EXTENDS Integers, Sequences, FiniteSets, TLC

VARIABLES
    phase,          \* "map" | "reduce": the stage of the job that runs
    m_stdin,        \* m_stdin[m]: the lines mapper instance m has still to read
    m_read,         \* m_read[m]: the lines mapper instance m has read
    m_stdout,       \* m_stdout[m]: the lines mapper instance m has printed
    m_taken,        \* m_taken[m]: how many lines of m_stdout[m] the shuffle has collected
    text,           \* the input lines not yet handed to a mapper instance
    text_done,      \* the input lines handed out so far, in input order
    shuffle,        \* the records collected from the mappers, in arrival order
    r_stdin,        \* the lines the reducer has still to read
    r_read,         \* the lines the reducer has read
    r_pairs,        \* the (word, count) pairs that passed the reducer's try block
    current_word,   \* reducer.py:22
    current_count,  \* reducer.py:23
    r_stdout,       \* the lines the reducer has printed
    r_pc            \* "loop" (reducer.py:26) | "done" (after reducer.py:56)

vars == << phase, m_stdin, m_read, m_stdout, m_taken, text, text_done, shuffle,
           r_stdin, r_read, r_pairs, current_word, current_count, r_stdout, r_pc >>

mapperVars == << m_stdin, m_read, m_stdout, m_taken, text, text_done, shuffle >>
reducerVars == << r_stdin, r_read, r_pairs, current_word, current_count, r_stdout, r_pc >>

----------------------------------------------------------------------------
(* Bounds *)

\* The longest reducer input stream, in lines.
MaxLines == 3

\* The longest mapper input text, in lines.
MaxText == 2

\* The mapper instances the job runs in parallel.
Mappers == {1, 2}

----------------------------------------------------------------------------
(* Characters *)

LowerSeq == << "a", "b", "c", "d", "e", "f", "g", "h", "i", "j", "k", "l", "m",
               "n", "o", "p", "q", "r", "s", "t", "u", "v", "w", "x", "y", "z" >>

UpperSeq == << "A", "B", "C", "D", "E", "F", "G", "H", "I", "J", "K", "L", "M",
               "N", "O", "P", "Q", "R", "S", "T", "U", "V", "W", "X", "Y", "Z" >>

DigitSeq == << "0", "1", "2", "3", "4", "5", "6", "7", "8", "9" >>

Range(s) == { s[i] : i \in DOMAIN s }

IndexOf(s, c) == CHOOSE i \in DOMAIN s : s[i] = c

\* Python's None.  No word equals it: a word is a sequence of characters and
\* "None" is not a character.
None == << "None" >>

\* The characters str.strip() removes (those of them that occur in a line read
\* in text mode from stdin).
Whitespace == { " ", "\t", "\n" }

\* The characters the pattern [a-zA-Z0-9] matches.
Alnum == Range(LowerSeq) \cup Range(UpperSeq) \cup Range(DigitSeq)

Min(S) == CHOOSE x \in S : \A y \in S : x <= y
Max(S) == CHOOSE x \in S : \A y \in S : x >= y

\* str.strip(): the string without its leading and trailing whitespace.
Strip(s) ==
    LET keep == { i \in DOMAIN s : s[i] \notin Whitespace }
    IN  IF keep = {} THEN << >> ELSE SubSeq(s, Min(keep), Max(keep))

\* str.lower() of one character.  KELVIN SIGN lowercases to the ASCII letter
\* k, and LATIN CAPITAL LETTER I WITH DOT ABOVE to i followed by COMBINING
\* DOT ABOVE.
LowerChar(c) ==
    IF c \in Range(UpperSeq) THEN << LowerSeq[IndexOf(UpperSeq, c)] >>
    ELSE IF c = "U+212A" THEN << "k" >>
    ELSE IF c = "U+0130" THEN << "i", "U+0307" >>
    ELSE << c >>

\* str.lower().
RECURSIVE Lower(_)
Lower(s) == IF s = << >> THEN << >> ELSE LowerChar(Head(s)) \o Lower(Tail(s))

\* str.split('\t'): the fields between the tabs; one field when there is no tab.
RECURSIVE Split(_)
Split(s) ==
    LET tabs == { i \in DOMAIN s : s[i] = "\t" }
    IN  IF tabs = {} THEN << s >>
        ELSE << SubSeq(s, 1, Min(tabs) - 1) >>
             \o Split(SubSeq(s, Min(tabs) + 1, Len(s)))

\* The value of a decimal digit as int() reads it (int() reads any Unicode
\* decimal digit).
DigitValue(c) ==
    IF c = "U+0663" THEN 3 ELSE IndexOf(DigitSeq, c) - 1

IntDigits == Range(DigitSeq) \cup { "U+0663" }

\* The digits part of an int() literal: digits, with single underscores
\* allowed between digits.
ValidDigits(b) ==
    /\ b # << >>
    /\ \A i \in DOMAIN b : b[i] \in IntDigits \cup { "_" }
    /\ b[1] # "_"
    /\ b[Len(b)] # "_"
    /\ \A i \in 1 .. (Len(b) - 1) : ~ (b[i] = "_" /\ b[i + 1] = "_")

RECURSIVE DigitsValue(_, _)
DigitsValue(b, acc) ==
    IF b = << >> THEN acc
    ELSE IF Head(b) = "_" THEN DigitsValue(Tail(b), acc)
    ELSE DigitsValue(Tail(b), 10 * acc + DigitValue(Head(b)))

\* int(s) of a string: surrounding whitespace is ignored, one sign is
\* allowed; anything else raises ValueError (ok = FALSE).  Python's int has
\* no width.
ParseInt(s) ==
    LET t      == Strip(s)
        signed == t # << >> /\ t[1] \in { "+", "-" }
        body   == IF signed THEN Tail(t) ELSE t
    IN  IF ValidDigits(body)
        THEN [ ok |-> TRUE,
               val |-> IF signed /\ t[1] = "-" THEN 0 - DigitsValue(body, 0)
                       ELSE DigitsValue(body, 0) ]
        ELSE [ ok |-> FALSE, val |-> 0 ]

\* The decimal digits of a natural number.
RECURSIVE FormatNat(_)
FormatNat(n) ==
    IF n < 10 THEN << DigitSeq[n + 1] >>
    ELSE FormatNat(n \div 10) \o << DigitSeq[(n % 10) + 1] >>

\* str(n) of an int, as an f-string formats it.
FormatInt(n) == IF n < 0 THEN << "-" >> \o FormatNat(0 - n) ELSE FormatNat(n)

----------------------------------------------------------------------------
(* reducer.py *)

\* PrintLine with a space for the separator.
PrintLine_Space(word, count) == word \o << " " >> \o FormatInt(count) \o << "\n" >>

\* print(f"{current_word}\t{current_count}"): the line written to stdout.
PrintLine(word, count) == word \o << "\t" >> \o FormatInt(count) \o << "\n" >>

\* ParseRecord with the fields after the second ignored.
ParseRecord_FirstTwo(line) ==
    LET fields == Split(line)
    IN  IF Len(fields) < 2
        THEN [ ok |-> FALSE, word |-> << >>, count |-> 0 ]
        ELSE LET n == ParseInt(fields[2])
             IN  IF n.ok
                 THEN [ ok |-> TRUE, word |-> fields[1], count |-> n.val ]
                 ELSE [ ok |-> FALSE, word |-> << >>, count |-> 0 ]

\* The try block: word, count = line.split('\t'); count = int(count).
\* Unpacking anything but two fields, or int() of a non-integer, raises
\* ValueError (ok = FALSE).
ParseRecord(line) ==
    LET fields == Split(line)
    IN  IF Len(fields) # 2
        THEN [ ok |-> FALSE, word |-> << >>, count |-> 0 ]
        ELSE LET n == ParseInt(fields[2])
             IN  IF n.ok
                 THEN [ ok |-> TRUE, word |-> fields[1], count |-> n.val ]
                 ELSE [ ok |-> FALSE, word |-> << >>, count |-> 0 ]

\* The reducer's state before it has read anything.
ReducerInit == [ current_word |-> None, current_count |-> 0, out |-> << >> ]

\* Accumulate with the count never restarted for a new word.
Accumulate_NoReset(st, word, count) ==
    IF st.current_word = word
    THEN [ st EXCEPT !.current_count = @ + count ]
    ELSE [ current_word  |-> word,
           current_count |-> st.current_count + count,
           out |-> IF st.current_word # None
                   THEN Append(st.out, PrintLine(st.current_word, st.current_count))
                   ELSE st.out ]

\* Accumulate with a repeated word's count assigned instead of added.
Accumulate_Overwrite(st, word, count) ==
    IF st.current_word = word
    THEN [ st EXCEPT !.current_count = count ]
    ELSE [ current_word  |-> word,
           current_count |-> count,
           out |-> IF st.current_word # None
                   THEN Append(st.out, PrintLine(st.current_word, st.current_count))
                   ELSE st.out ]

\* Accumulate with a new word's count started at zero.
Accumulate_ResetZero(st, word, count) ==
    IF st.current_word = word
    THEN [ st EXCEPT !.current_count = @ + count ]
    ELSE [ current_word  |-> word,
           current_count |-> 0,
           out |-> IF st.current_word # None
                   THEN Append(st.out, PrintLine(st.current_word, st.current_count))
                   ELSE st.out ]

\* Accumulate without the print on a change of word.
Accumulate_NoEmit(st, word, count) ==
    IF st.current_word = word
    THEN [ st EXCEPT !.current_count = @ + count ]
    ELSE [ current_word |-> word, current_count |-> count, out |-> st.out ]

\* Accumulate with a repeated word's count subtracted.
Accumulate_Subtract(st, word, count) ==
    IF st.current_word = word
    THEN [ st EXCEPT !.current_count = @ - count ]
    ELSE [ current_word  |-> word,
           current_count |-> count,
           out |-> IF st.current_word # None
                   THEN Append(st.out, PrintLine(st.current_word, st.current_count))
                   ELSE st.out ]

\* Accumulate without the test for None before the print.
Accumulate_EmitEager(st, word, count) ==
    IF st.current_word = word
    THEN [ st EXCEPT !.current_count = @ + count ]
    ELSE [ current_word  |-> word,
           current_count |-> count,
           out |-> Append(st.out, PrintLine(st.current_word, st.current_count)) ]

\* Accumulate with a comparison of the words that never succeeds.
Accumulate_AlwaysNew(st, word, count) ==
    [ current_word  |-> word,
      current_count |-> count,
      out |-> IF st.current_word # None
              THEN Append(st.out, PrintLine(st.current_word, st.current_count))
              ELSE st.out ]

\* if current_word == word: ... else: ... on a parsed record.
Accumulate(st, word, count) ==
    IF st.current_word = word
    THEN [ st EXCEPT !.current_count = @ + count ]
    ELSE [ current_word  |-> word,
           current_count |-> count,
           out |-> IF st.current_word # None
                   THEN Append(st.out, PrintLine(st.current_word, st.current_count))
                   ELSE st.out ]

\* ReduceLine with the current group dropped when a line fails to parse.
ReduceLine_ResetOnError(st, raw) ==
    LET line == Strip(raw)
    IN  IF line = << >> THEN st
        ELSE LET rec == ParseRecord(line)
             IN  IF rec.ok THEN Accumulate(st, rec.word, rec.count)
                 ELSE [ st EXCEPT !.current_word = None, !.current_count = 0 ]

\* The body of the loop over stdin, for one line.
ReduceLine(st, raw) ==
    LET line == Strip(raw)
    IN  IF line = << >> THEN st
        ELSE LET rec == ParseRecord(line)
             IN  IF rec.ok THEN Accumulate(st, rec.word, rec.count) ELSE st

\* Flush without the final print.
Flush_Never(st) == st

\* After the loop: the last word's count is printed.
Flush(st) ==
    IF st.current_word # None
    THEN [ st EXCEPT !.out = Append(@, PrintLine(st.current_word, st.current_count)) ]
    ELSE st

RECURSIVE ReduceLines(_, _)
ReduceLines(st, stream) ==
    IF stream = << >> THEN st
    ELSE ReduceLines(ReduceLine(st, Head(stream)), Tail(stream))

\* What one run of the reducer prints for a whole input stream.
RunReducer(stream) == Flush(ReduceLines(ReducerInit, stream)).out

ReducerState ==
    [ current_word |-> current_word, current_count |-> current_count, out |-> r_stdout ]

\* One iteration of `for line in sys.stdin`.
ReducerLoop ==
    /\ phase = "reduce"
    /\ r_pc = "loop"
    /\ r_stdin # << >>
    /\ LET raw  == Head(r_stdin)
           rec  == ParseRecord(Strip(raw))
           next == ReduceLine(ReducerState, raw)
       IN  /\ r_stdin' = Tail(r_stdin)
           /\ r_read' = Append(r_read, raw)
           /\ r_pairs' = IF Strip(raw) # << >> /\ rec.ok
                         THEN Append(r_pairs, [ word |-> rec.word, count |-> rec.count ])
                         ELSE r_pairs
           /\ current_word' = next.current_word
           /\ current_count' = next.current_count
           /\ r_stdout' = next.out
    /\ UNCHANGED << phase, mapperVars, r_pc >>

\* End of stdin: the final print, and the process ends.
ReducerEOF ==
    /\ phase = "reduce"
    /\ r_pc = "loop"
    /\ r_stdin = << >>
    /\ r_stdout' = Flush(ReducerState).out
    /\ r_pc' = "done"
    /\ UNCHANGED << phase, mapperVars, r_stdin, r_read, r_pairs,
                    current_word, current_count >>

----------------------------------------------------------------------------
(* The reducer alone, on any input stream *)

L(s) == s \o << "\n" >>

\* The lines a reducer input stream is made of.
ReducerLines ==
    { L(<< "a", "\t", "1" >>),
      L(<< "a", "\t", "2" >>),
      L(<< "b", "\t", "1" >>),
      L(<< >>),
      L(<< "a" >>),
      L(<< "a", "\t", "x" >>),
      L(<< "a", "\t", "-", "1" >>),
      L(<< "a", "\t", "1", "\t", "1" >>),
      L(<< " ", "b", "\t", " ", "1", " " >>),
      L(<< "a", "\t" >>),
      L(<< "b", " ", "\t", "1", "_", "0" >>),
      L(<< "b", "\t", "U+0663" >>) }

\* The streams of at most n lines drawn from S.
Streams(S, n) == UNION { [ 1 .. k -> S ] : k \in 0 .. n }

NoMappers == [ m \in Mappers |-> << >> ]

Init ==
    /\ phase = "reduce"
    /\ m_stdin = NoMappers
    /\ m_read = NoMappers
    /\ m_stdout = NoMappers
    /\ m_taken = [ m \in Mappers |-> 0 ]
    /\ text = << >>
    /\ text_done = << >>
    /\ shuffle = << >>
    /\ r_stdin \in Streams(ReducerLines, MaxLines)
    /\ r_read = << >>
    /\ r_pairs = << >>
    /\ current_word = None
    /\ current_count = 0
    /\ r_stdout = << >>
    /\ r_pc = "loop"

Next ==
    \/ ReducerLoop
    \/ ReducerEOF

Spec == Init /\ [][Next]_vars

----------------------------------------------------------------------------
(* mapper.py *)

\* The length of the longest prefix of s made of alphanumeric characters.
RECURSIVE RunLength(_)
RunLength(s) ==
    IF s = << >> \/ Head(s) \notin Alnum THEN 0 ELSE 1 + RunLength(Tail(s))

\* re.findall(r'[a-zA-Z0-9]+', line): the non-overlapping matches, scanning
\* from the left, each as long as it can be.
RECURSIVE FindAll(_)
FindAll(s) ==
    IF s = << >> THEN << >>
    ELSE IF Head(s) \notin Alnum THEN FindAll(Tail(s))
    ELSE LET n == RunLength(s)
         IN  << SubSeq(s, 1, n) >> \o FindAll(SubSeq(s, n + 1, Len(s)))

\* EmitLine with a space for the separator.
EmitLine_Space(word) == word \o << " ", "1", "\n" >>

\* print(f"{word}\t1"): the line written to stdout.
EmitLine(word) == word \o << "\t", "1", "\n" >>

\* EmitWords with the one-character words skipped.
RECURSIVE EmitWords_SkipShort(_)
EmitWords_SkipShort(words) ==
    IF words = << >> THEN << >>
    ELSE (IF Len(Head(words)) > 1 THEN << EmitLine(Head(words)) >> ELSE << >>)
         \o EmitWords_SkipShort(Tail(words))

\* The inner loop: one line printed per word that passes len(word) > 0.
RECURSIVE EmitWords(_)
EmitWords(words) ==
    IF words = << >> THEN << >>
    ELSE (IF Len(Head(words)) > 0 THEN << EmitLine(Head(words)) >> ELSE << >>)
         \o EmitWords(Tail(words))

\* MapLine without the lowercasing.
MapLine_NoLower(raw) ==
    LET line == Strip(raw)
    IN  IF line = << >> THEN << >> ELSE EmitWords(FindAll(line))

\* The body of the loop over stdin, for one line: the lines it prints.
MapLine(raw) ==
    LET line == Lower(Strip(raw))
    IN  IF line = << >> THEN << >> ELSE EmitWords(FindAll(line))

\* MapperStep with a memory of the lines already printed: a word is printed
\* only the first time the instance meets it.
MapperStep_Dedup(out, raw) ==
    out \o SelectSeq(MapLine(raw), LAMBDA l : l \notin Range(out))

\* The mapper's stdout after one more iteration of `for line in sys.stdin`.
MapperStep(out, raw) == out \o MapLine(raw)

RECURSIVE MapLines(_, _)
MapLines(out, stream) ==
    IF stream = << >> THEN out
    ELSE MapLines(MapperStep(out, Head(stream)), Tail(stream))

\* What one run of the mapper prints for a whole input text.
RunMapper(stream) == MapLines(<< >>, stream)

\* One iteration of `for line in sys.stdin` in mapper instance m.
MapperLoop(m) ==
    /\ phase = "map"
    /\ m_stdin[m] # << >>
    /\ m_stdin' = [ m_stdin EXCEPT ![m] = Tail(@) ]
    /\ m_read' = [ m_read EXCEPT ![m] = Append(@, Head(m_stdin[m])) ]
    /\ m_stdout' = [ m_stdout EXCEPT ![m] = MapperStep(@, Head(m_stdin[m])) ]
    /\ UNCHANGED << phase, m_taken, text, text_done, shuffle, reducerVars >>

----------------------------------------------------------------------------
(* The job around the two scripts: input splits, shuffle and sort *)

\* The place of a character in the sort's byte order.
ByteOrder == << "\t", "\n", " ", "+", ",", "-" >> \o DigitSeq \o UpperSeq
             \o << "_" >> \o LowerSeq \o << "U+0130", "U+0307", "U+0663", "U+212A" >>

CharCode(c) == IndexOf(ByteOrder, c)

\* a sorts at or before b.
RECURSIVE LexLeq(_, _)
LexLeq(a, b) ==
    IF a = << >> THEN TRUE
    ELSE IF b = << >> THEN FALSE
    ELSE IF Head(a) = Head(b) THEN LexLeq(Tail(a), Tail(b))
    ELSE CharCode(Head(a)) < CharCode(Head(b))

\* The key of a record: the text before its first tab.
KeyOf(record) == Split(record)[1]

RECURSIVE InsertByKey(_, _)
InsertByKey(sorted, record) ==
    IF sorted = << >> THEN << record >>
    ELSE IF LexLeq(KeyOf(Head(sorted)), KeyOf(record))
         THEN << Head(sorted) >> \o InsertByKey(Tail(sorted), record)
         ELSE << record >> \o sorted

\* The sort barrier: the records in key order, equal keys contiguous.
RECURSIVE SortByKey(_)
SortByKey(records) ==
    IF records = << >> THEN << >>
    ELSE InsertByKey(SortByKey(SubSeq(records, 1, Len(records) - 1)),
                     records[Len(records)])

\* The next input line goes to mapper instance m.
Dispatch(m) ==
    /\ phase = "map"
    /\ text # << >>
    /\ m_stdin' = [ m_stdin EXCEPT ![m] = Append(@, Head(text)) ]
    /\ text' = Tail(text)
    /\ text_done' = Append(text_done, Head(text))
    /\ UNCHANGED << phase, m_read, m_stdout, m_taken, shuffle, reducerVars >>

\* The shuffle collects the next record mapper instance m has printed.
Collect(m) ==
    /\ phase = "map"
    /\ m_taken[m] < Len(m_stdout[m])
    /\ shuffle' = Append(shuffle, m_stdout[m][m_taken[m] + 1])
    /\ m_taken' = [ m_taken EXCEPT ![m] = @ + 1 ]
    /\ UNCHANGED << phase, m_stdin, m_read, m_stdout, text, text_done, reducerVars >>

\* Every mapper has ended and every record is collected: the reducer is
\* started on the sorted records.
SortBarrier ==
    /\ phase = "map"
    /\ text = << >>
    /\ \A m \in Mappers : m_stdin[m] = << >> /\ m_taken[m] = Len(m_stdout[m])
    /\ r_stdin' = SortByKey(shuffle)
    /\ phase' = "reduce"
    /\ UNCHANGED << mapperVars, r_read, r_pairs, current_word, current_count,
                    r_stdout, r_pc >>

\* The lines an input text is made of.
TextLines ==
    { L(<< "a", " ", "b" >>),
      L(<< "A", ",", "a" >>),
      L(<< >>),
      L(<< " ", "," >>),
      L(<< "b", "1", "-", "a" >>),
      L(<< "U+212A" >>),
      L(<< "U+0130", "b" >>) }

InitPipeline ==
    /\ phase = "map"
    /\ m_stdin = NoMappers
    /\ m_read = NoMappers
    /\ m_stdout = NoMappers
    /\ m_taken = [ m \in Mappers |-> 0 ]
    /\ text \in Streams(TextLines, MaxText)
    /\ text_done = << >>
    /\ shuffle = << >>
    /\ r_stdin = << >>
    /\ r_read = << >>
    /\ r_pairs = << >>
    /\ current_word = None
    /\ current_count = 0
    /\ r_stdout = << >>
    /\ r_pc = "loop"

NextPipeline ==
    \/ \E m \in Mappers : Dispatch(m)
    \/ \E m \in Mappers : MapperLoop(m)
    \/ \E m \in Mappers : Collect(m)
    \/ SortBarrier
    \/ ReducerLoop
    \/ ReducerEOF

SpecPipeline == InitPipeline /\ [][NextPipeline]_vars

----------------------------------------------------------------------------
(* What the claims speak of *)

\* The well-formed records of a stream, in order: the lines that, stripped,
\* are two tab-separated fields with an integer second field.
RECURSIVE WellFormed(_)
WellFormed(stream) ==
    IF stream = << >> THEN << >>
    ELSE LET rec == ParseRecord(Strip(Head(stream)))
         IN  (IF rec.ok THEN << [ word |-> rec.word, count |-> rec.count ] >>
              ELSE << >>)
             \o WellFormed(Tail(stream))

RECURSIVE SumCounts(_, _, _)
SumCounts(p, i, j) == IF i > j THEN 0 ELSE p[i].count + SumCounts(p, i + 1, j)

RECURSIVE Ascending(_)
Ascending(S) == IF S = {} THEN << >> ELSE << Min(S) >> \o Ascending(S \ { Min(S) })

\* Where the maximal contiguous runs of equal keys start, and where the run
\* that starts at i ends.
RunStarts(p) == { i \in DOMAIN p : i = 1 \/ p[i].word # p[i - 1].word }
RunEnd(p, i) == Max({ j \in i .. Len(p) : \A k \in i .. j : p[k].word = p[i].word })

\* The maximal contiguous runs of equal keys, in order, each with its sum.
Runs(p) ==
    LET starts == Ascending(RunStarts(p))
    IN  [ n \in DOMAIN starts |->
            [ word  |-> p[starts[n]].word,
              len   |-> RunEnd(p, starts[n]) - starts[n] + 1,
              total |-> SumCounts(p, starts[n], RunEnd(p, starts[n])) ] ]

\* The first field of an output line, and the integer after its tab.
FirstField(line) == SubSeq(line, 1, Min({ i \in DOMAIN line : line[i] = "\t" }) - 1)
LineTotal(line) ==
    ParseInt(SubSeq(line, Min({ i \in DOMAIN line : line[i] = "\t" }) + 1, Len(line))).val

KeysOf(p) == { p[i].word : i \in DOMAIN p }
TotalFor(p, w) ==
    LET mine == SelectSeq(p, LAMBDA r : r.word = w) IN SumCounts(mine, 1, Len(mine))

\* All records of one key are contiguous.
Contiguous(p) ==
    \A i, j \in DOMAIN p :
        (i < j /\ p[i].word = p[j].word) => \A k \in i .. j : p[k].word = p[i].word

ReadPairs == WellFormed(r_read)
ReadRuns == Runs(ReadPairs)

----------------------------------------------------------------------------
(* Claims about the reducer alone (Spec) *)

\* C1: when the reducer has ended, its output is one line per maximal
\* contiguous run of equal keys among the well-formed records it read, in the
\* order of the runs, each line carrying the sum of the counts of its run.
C1_OneLinePerRun ==
    r_pc = "done" =>
        r_stdout = [ n \in DOMAIN ReadRuns |->
                       PrintLine(ReadRuns[n].word, ReadRuns[n].total) ]

\* A finished run whose input had two runs, one of them of several records.
C1_Witness ==
    /\ r_pc = "done"
    /\ Len(r_stdout) >= 2
    /\ \E n \in DOMAIN ReadRuns : ReadRuns[n].len >= 2

\* C2: when the well-formed records of the input are contiguous by key, every
\* distinct key is the key of exactly one output line, and that line carries
\* the sum of the counts of all the records of the key.
C2_OneLinePerKey ==
    (r_pc = "done" /\ Contiguous(ReadPairs)) =>
        \A w \in KeysOf(ReadPairs) :
            /\ Cardinality({ n \in DOMAIN r_stdout : FirstField(r_stdout[n]) = w }) = 1
            /\ \E n \in DOMAIN r_stdout :
                   r_stdout[n] = PrintLine(w, TotalFor(ReadPairs, w))

\* A finished run on contiguous input with two keys, one with several records.
C2_Witness ==
    /\ r_pc = "done"
    /\ Contiguous(ReadPairs)
    /\ Cardinality(KeysOf(ReadPairs)) >= 2
    /\ Len(ReadPairs) > Cardinality(KeysOf(ReadPairs))

\* C3: the step that ends the reducer prints the group being accumulated, once,
\* when a well-formed record was read (the last run of the input, with its
\* sum), and prints nothing when none was; nothing is printed after the end.
C3_FinalFlushOnce ==
    [][ /\ (r_pc = "loop" /\ r_pc' = "done") =>
              IF ReadPairs = << >>
              THEN r_stdout = << >> /\ r_stdout' = << >>
              ELSE r_stdout' =
                     Append(r_stdout,
                            PrintLine(ReadRuns[Len(ReadRuns)].word,
                                      ReadRuns[Len(ReadRuns)].total))
        /\ r_pc = "done" => r_stdout' = r_stdout ]_vars

\* A finished run whose last record was the only record of its key.
C3_Witness ==
    /\ r_pc = "done"
    /\ Len(ReadRuns) >= 2
    /\ ReadRuns[Len(ReadRuns)].len = 1
    /\ r_stdout[Len(r_stdout)] =
           PrintLine(ReadPairs[Len(ReadPairs)].word, ReadPairs[Len(ReadPairs)].count)

\* A malformed line: not blank, and either without a tab or with a count
\* field (the text after the first tab) that int() rejects.
MalformedLine(raw) ==
    LET line == Strip(raw)
        tabs == { i \in DOMAIN line : line[i] = "\t" }
    IN  /\ line # << >>
        /\ \/ tabs = {}
           \/ ~ ParseInt(SubSeq(line, Min(tabs) + 1, Len(line))).ok

WithoutMalformed(stream) == SelectSeq(stream, LAMBDA raw : ~ MalformedLine(raw))

\* C4: reading a malformed line leaves current_word, current_count and the
\* output as they were and the loop goes on; and the output of a finished run
\* is the output of the reducer for the same stream without its malformed lines.
C4_MalformedSkipped ==
    /\ [][ (r_pc = "loop" /\ r_stdin # << >> /\ MalformedLine(Head(r_stdin))) =>
              /\ UNCHANGED << current_word, current_count, r_stdout >>
              /\ r_pc' = "loop" ]_vars
    /\ [](r_pc = "done" => r_stdout = RunReducer(WithoutMalformed(r_read)))

\* A finished run with a malformed line between two records of one key.
C4_Witness ==
    /\ r_pc = "done"
    /\ \E i \in DOMAIN r_read :
          /\ MalformedLine(r_read[i])
          /\ WellFormed(SubSeq(r_read, 1, i - 1)) # << >>
          /\ WellFormed(SubSeq(r_read, i + 1, Len(r_read))) # << >>
    /\ Len(ReadRuns) = 1
    /\ Len(r_stdout) = 1

\* C6: when a key has two separate runs in the input, the finished reducer
\* has printed one line for each of them, each with the sum of its own run,
\* and as many lines with that key as the key has runs.
C6_PartialTotals ==
    r_pc = "done" =>
        \A i, j \in DOMAIN ReadRuns :
            (i < j /\ ReadRuns[i].word = ReadRuns[j].word) =>
                /\ j <= Len(r_stdout)
                /\ r_stdout[i] = PrintLine(ReadRuns[i].word, ReadRuns[i].total)
                /\ r_stdout[j] = PrintLine(ReadRuns[j].word, ReadRuns[j].total)
                /\ Cardinality({ n \in DOMAIN r_stdout :
                                   FirstField(r_stdout[n]) = ReadRuns[i].word })
                   = Cardinality({ n \in DOMAIN ReadRuns :
                                     ReadRuns[n].word = ReadRuns[i].word })

\* A finished run on an input where one key has two runs with different sums.
C6_Witness ==
    /\ r_pc = "done"
    /\ \E i, j \in DOMAIN ReadRuns :
          /\ i < j
          /\ ReadRuns[i].word = ReadRuns[j].word
          /\ ReadRuns[i].total # ReadRuns[j].total
    /\ Len(r_stdout) = 3

\* C10 as stated: whatever the input, the count being accumulated, the counts
\* of the records accumulated and the totals printed are never negative.
C10_CountsNonNegative ==
    /\ current_count >= 0
    /\ \A i \in DOMAIN r_pairs : r_pairs[i].count >= 0
    /\ \A n \in DOMAIN r_stdout : LineTotal(r_stdout[n]) >= 0

\* C10 as amended: when no well-formed record of the input stream carries a
\* negative count, the count being accumulated and the totals printed are
\* never negative.
C10_NonNegativeInput ==
    (\A i \in DOMAIN WellFormed(r_read \o r_stdin) :
         WellFormed(r_read \o r_stdin)[i].count >= 0) =>
        /\ current_count >= 0
        /\ \A n \in DOMAIN r_stdout : LineTotal(r_stdout[n]) >= 0

\* A finished run on such an input that printed a sum of several records.
C10_Witness ==
    /\ r_pc = "done"
    /\ \A i \in DOMAIN ReadPairs : ReadPairs[i].count >= 0
    /\ Len(ReadPairs) >= 2
    /\ \E n \in DOMAIN r_stdout : LineTotal(r_stdout[n]) >= 3

----------------------------------------------------------------------------
(* Claims about the pipeline (SpecPipeline) *)

RECURSIVE SumSeq(_)
SumSeq(q) == IF q = << >> THEN 0 ELSE Head(q) + SumSeq(Tail(q))

RECURSIVE Flatten(_)
Flatten(q) == IF q = << >> THEN << >> ELSE Head(q) \o Flatten(Tail(q))

\* The number of lines all the mapper instances have printed.
EmittedCount == SumSeq([ n \in 1 .. Cardinality(Mappers) |-> Len(m_stdout[n]) ])

\* C5: when the reducer has ended on the sorted output of the mappers, the
\* totals of its output lines add up to the number of lines the mappers printed.
C5_Conservation ==
    r_pc = "done" =>
        SumSeq([ n \in DOMAIN r_stdout |-> LineTotal(r_stdout[n]) ]) = EmittedCount

\* A finished job with at least three tokens, one of them repeated.
C5_Witness ==
    /\ r_pc = "done"
    /\ EmittedCount >= 3
    /\ Len(r_stdout) >= 2
    /\ \E n \in DOMAIN r_stdout : LineTotal(r_stdout[n]) >= 2

LowerAlnum == Range(LowerSeq) \cup Range(DigitSeq)

\* The maximal runs of ASCII letters or digits of s, as (first, last) places.
MaximalRuns(s) ==
    { ij \in (DOMAIN s) \X (DOMAIN s) :
        /\ ij[1] <= ij[2]
        /\ \A k \in ij[1] .. ij[2] : s[k] \in Alnum
        /\ ij[1] = 1 \/ s[ij[1] - 1] \notin Alnum
        /\ ij[2] = Len(s) \/ s[ij[2] + 1] \notin Alnum }

RunFrom(s, i) == CHOOSE ij \in MaximalRuns(s) : ij[1] = i

\* The tokens of a line: the maximal runs of the lowercased line, from the left.
Tokens(raw) ==
    LET s      == Lower(raw)
        firsts == Ascending({ ij[1] : ij \in MaximalRuns(s) })
    IN  [ n \in DOMAIN firsts |-> SubSeq(s, firsts[n], RunFrom(s, firsts[n])[2]) ]

\* The pairs (token, 1) of a line, as the lines that carry them.
TokenLines(raw) == [ n \in DOMAIN Tokens(raw) |-> Tokens(raw)[n] \o << "\t", "1", "\n" >> ]

AllEmitted == Flatten([ n \in 1 .. Cardinality(Mappers) |-> m_stdout[n] ])

\* The pair a mapper line carries: the token is the line without its last
\* three characters (the tab, the digit 1 and the line break).
EmittedPair(line) == [ word |-> SubSeq(line, 1, Len(line) - 3), count |-> 1 ]

Occurrences(q, x) == Cardinality({ n \in DOMAIN q : q[n] = x })

\* C8: every line a mapper prints is a token of letters and digits, one tab,
\* the digit 1 and the line break; the reducer's parse of the line is the
\* well-formed pair (token, 1); the reducer accumulates a pair for every line
\* it reads; and when it has ended, the pairs it accumulated are, with their
\* multiplicities, the pairs the mappers printed.
C8_WireRoundTrip ==
    /\ \A n \in DOMAIN AllEmitted :
          LET line == AllEmitted[n] IN
          /\ Len(line) >= 4
          /\ SubSeq(line, Len(line) - 2, Len(line)) = << "\t", "1", "\n" >>
          /\ \A k \in 1 .. (Len(line) - 3) : line[k] \in Alnum
          /\ ParseRecord(Strip(line)) =
                [ ok |-> TRUE, word |-> EmittedPair(line).word, count |-> 1 ]
    /\ Len(r_pairs) = Len(r_read)
    /\ r_pc = "done" =>
          \A x \in Range(r_pairs) \cup { EmittedPair(AllEmitted[n]) : n \in DOMAIN AllEmitted } :
              Occurrences(r_pairs, x)
              = Occurrences([ n \in DOMAIN AllEmitted |-> EmittedPair(AllEmitted[n]) ], x)

\* A finished job in which the reducer accumulated three pairs or more.
C8_Witness ==
    /\ r_pc = "done"
    /\ Len(r_pairs) >= 3
    /\ Len(AllEmitted) = Len(r_pairs)

\* C9: however the input lines were split among the mapper instances and in
\* whatever order their records were collected, the finished reducer has
\* printed what one mapper over the whole text, the sort and the reducer
\* print; and what a mapper instance has printed is, line after line of what
\* it has read, what the mapper prints for that line alone.
C9_ShardIndependence ==
    /\ r_pc = "done" => r_stdout = RunReducer(SortByKey(RunMapper(text_done)))
    /\ \A m \in Mappers :
          m_stdout[m] = Flatten([ n \in DOMAIN m_read[m] |-> MapLine(m_read[m][n]) ])

\* A finished job in which two mapper instances each printed a record of the
\* same key and the records were not collected in the order of the text.
C9_Witness ==
    /\ r_pc = "done"
    /\ \E a, b \in Mappers :
          /\ a # b
          /\ Range(m_stdout[a]) \cap Range(m_stdout[b]) # {}
    /\ shuffle # RunMapper(text_done)

\* A line with every character that is not an ASCII letter or digit replaced
\* by a space.
Blanked(raw) == [ i \in DOMAIN raw |-> IF raw[i] \in Alnum THEN raw[i] ELSE " " ]

\* C11: only the ASCII letters and digits of a line matter: what a mapper
\* instance has printed is, line after line of what it has read, what the
\* mapper prints for the line with every other character replaced by a space.
C11_OnlyAsciiSignificant ==
    \A m \in Mappers :
        m_stdout[m] = Flatten([ n \in DOMAIN m_read[m] |-> MapLine(Blanked(m_read[m][n])) ])

----------------------------------------------------------------------------
(* Claims about the reducer's state and steps (Spec) *)

\* C12: after every line, current_word is None exactly when no well-formed
\* record has been read; otherwise it is the key of the current contiguous run
\* and current_count is the sum of the counts of the records of that run.
C12_RunningTotal ==
    /\ (current_word = None) <=> (ReadPairs = << >>)
    /\ current_word # None =>
          /\ current_word = ReadRuns[Len(ReadRuns)].word
          /\ current_count = ReadRuns[Len(ReadRuns)].total

\* In the middle of the input, with a second run of two records being
\* accumulated.
C12_Witness ==
    /\ r_pc = "loop"
    /\ Len(ReadRuns) = 2
    /\ ReadRuns[2].len = 2
    /\ current_count = ReadRuns[2].total
    /\ current_count # ReadPairs[Len(ReadPairs)].count

\* The line the loop is about to read is a well-formed record.
NextRecord == ParseRecord(Strip(Head(r_stdin)))
ReadsRecord == r_pc = "loop" /\ r_stdin # << >> /\ NextRecord.ok

\* C13: a well-formed record read from Idle or with the current key prints
\* nothing; one with another key prints exactly the line of the group just
\* closed and the state becomes (new key, its count); so before the end of the
\* stream the lines printed are as many as the key changes seen, and the group
\* being accumulated is not among them.
C13_EmissionTiming ==
    /\ [][ ReadsRecord =>
              IF current_word = None \/ current_word = NextRecord.word
              THEN r_stdout' = r_stdout
              ELSE /\ r_stdout' = Append(r_stdout, PrintLine(current_word, current_count))
                   /\ current_word' = NextRecord.word
                   /\ current_count' = NextRecord.count ]_vars
    /\ [](r_pc = "loop" =>
             Len(r_stdout) = (IF ReadRuns = << >> THEN 0 ELSE Len(ReadRuns) - 1))

\* In the middle of the input, after one change of key: one line printed, for
\* the first group, and the second group being accumulated.
C13_Witness ==
    /\ r_pc = "loop"
    /\ Len(ReadRuns) = 2
    /\ r_stdout = << PrintLine(ReadRuns[1].word, ReadRuns[1].total) >>
    /\ current_word = ReadRuns[2].word

\* A line that, stripped, is two fields around a single tab, the second an
\* integer for int().
TwoFieldsInteger(raw) ==
    LET line == Strip(raw)
        tabs == { i \in DOMAIN line : line[i] = "\t" }
    IN  /\ Cardinality(tabs) = 1
        /\ ParseInt(SubSeq(line, Min(tabs) + 1, Len(line))).ok

\* C15: reading any line that is not such a line (blank, without a tab, with
\* two tabs or more, with an empty count, with a count that is no integer)
\* leaves current_word and current_count as they were and prints nothing.
C15_OnlyRecordsAct ==
    [][ (r_pc = "loop" /\ r_stdin # << >> /\ ~ TwoFieldsInteger(Head(r_stdin))) =>
           UNCHANGED << current_word, current_count, r_stdout >> ]_vars

\* A line with two tabs has been read after a well-formed record, and the
\* group of that record is still the one being accumulated.
C15_Witness ==
    /\ r_pc = "loop"
    /\ Len(r_read) >= 2
    /\ Cardinality({ i \in DOMAIN Strip(r_read[Len(r_read)]) :
                       Strip(r_read[Len(r_read)])[i] = "\t" }) >= 2
    /\ Len(ReadPairs) = 1
    /\ current_word = ReadPairs[1].word
    /\ r_stdout = << >>

\* C16: no two consecutive lines of the reducer's output carry the same key.
C16_NoAdjacentSameKey ==
    \A n \in 1 .. (Len(r_stdout) - 1) :
        FirstField(r_stdout[n]) # FirstField(r_stdout[n + 1])

\* A finished run that printed three lines, the first and the last for the
\* same key.
C16_Witness ==
    /\ r_pc = "done"
    /\ Len(r_stdout) = 3
    /\ FirstField(r_stdout[1]) = FirstField(r_stdout[3])

\* C17: the reducer, fed the lines a finished run printed, prints the same lines.
C17_Idempotent ==
    r_pc = "done" => RunReducer(r_stdout) = r_stdout

\* A finished run that printed two lines or more, one with a total of two
\* digits and one with a negative total or a key that ends with a space.
C17_Witness ==
    /\ r_pc = "done"
    /\ Len(r_stdout) >= 2
    /\ \E n \in DOMAIN r_stdout : LineTotal(r_stdout[n]) >= 10
    /\ \E n \in DOMAIN r_stdout :
          \/ LineTotal(r_stdout[n]) < 0
          \/ FirstField(r_stdout[n])[Len(FirstField(r_stdout[n]))] = " "

====
